---- MODULE Spec2Model ----
(***************************************************************************)
(* cleanup_picks.py: a linear script that reads RealGaryPicks.jsx into a   *)
(* string buffer, applies seventeen find-and-replace rewrites to it in     *)
(* order, writes the buffer back and prints a fixed summary.               *)
(*                                                                         *)
(* Text is modelled as a sequence of lexical tokens.  Each token stands    *)
(* for one fixed piece of text; the literal pieces of the script's         *)
(* patterns are tokens, so that a pattern is a sequence of literal tokens, *)
(* lazy wildcards and greedy whitespace runs:                              *)
(*   IMP    import { BetCard } from './BetCard';                           *)
(*   NL     the newline character                                          *)
(*   SP     a run of blanks (whitespace other than newline)                *)
(*   X      any other code on one line (no newline, no ");")               *)
(*   CL     console.log                                                    *)
(*   L1     ('Complete Supabase data structure:',                          *)
(*   L2     ('Direct time field check:',                                   *)
(*   L3     ('Processing valid pick from Supabase:',                       *)
(*   L4     ('Game time from database:',                                   *)
(*   L5     ('Time field variations:',                                     *)
(*   L6     ('Valid pick ready for rendering:',                            *)
(*   L7     ('Parsed and enhanced picksArray:',                            *)
(*   L8     (`Original time parts:                                         *)
(*   CLOSE  );                                                             *)
(*   DBG    // Debug logs for troubleshooting                              *)
(*   UE     useEffect(() => {                                              *)
(*   DEPS   }, [picks, loading, error]                                     *)
(*   HARD   two blanks and // Using hardcoded performance values           *)
(*   HDR    // Helper function to extract odds from analysis prompt        *)
(*   FN     const extractOddsFromAnalysis = (pick) => {                    *)
(*   RET    return '';                                                     *)
(*   END    };                                                             *)
(*   B1     source lines 38-46 of the new function body up to .join(' '    *)
(*   B2     source line 47 up to the backquote and first closing paren     *)
(*   B3     source lines 48-51 up to console.error(..., error              *)
(*   B4     the closing brace of the try/catch on source line 52           *)
(*   UNUSED // Removed unused state variables for bet tracking             *)
(*   TOAST  two blanks and // Toast notification system                    *)
(*   RKH    two blanks and const [reloadKey, setReloadKey] = useState(0    *)
(*   INC    // Increment reloadKey to force BetCard to reload              *)
(*   SRK    setReloadKey(prev => {                                         *)
(*   RB     }                                                              *)
(*   PT     const pageTitle = visiblePicks.length                          *)
(*   GP     "Gary's Picks";                                                *)
(***************************************************************************)
EXTENDS Integers, Sequences, FiniteSets, TLC

\* file              the text of RealGaryPicks.jsx on disk
\* content           the script's string buffer
\* pc, rule          where the script is; rule is the next rewrite, 1..17
\* out               the lines printed so far
\* hist              history variable: the successive values of content, the
\*                   text as read first; the script itself keeps no such log
\* badEscapeIsError  the interpreter running the script: TRUE where re.sub
\*                   rejects an unknown backslash-letter escape in a
\*                   replacement (Python 3.7 and later), FALSE where it keeps
\*                   the escape as text (earlier Python 3)
VARIABLES file, content, pc, rule, out, hist, badEscapeIsError

vars == <<file, content, pc, rule, out, hist, badEscapeIsError>>

\* ------------------------------------------------------------------ bounds
MaxFrags == 5
MaxBlockFrags == 5
MaxReloadFrags == 5
MaxOddsFrags == 3

\* ------------------------------------------------- the regular expressions
\* Tokens whose text contains a newline: "." without re.DOTALL refuses them.
MultiLine == {"NL", "B1", "B3"}

\* Tokens that are whitespace only: what \s accepts.
Space == {"NL", "SP"}

InClass(cls, c) ==
  CASE cls = "dot"   -> c \notin MultiLine
    [] cls = "any"   -> TRUE
    [] cls = "space" -> c \in Space

Lit(c) == [k |-> "lit", c |-> c]
Lazy(cls) == [k |-> "lazy", c |-> cls]
Greedy(cls) == [k |-> "greedy", c |-> cls]

\* The literal pattern that matches exactly the token sequence toks.
Lits(toks) == [j \in 1..Len(toks) |-> Lit(toks[j])]

\* Backtracking match of elements k.. of pattern p against s at position i:
\* the position after the match that the engine finds first, or 0.
RECURSIVE MatchFrom(_, _, _, _)
MatchFrom(p, k, s, i) ==
  IF k > Len(p) THEN i
  ELSE
    CASE p[k].k = "lit" ->
           IF i <= Len(s) /\ s[i] = p[k].c THEN MatchFrom(p, k + 1, s, i + 1) ELSE 0
      [] p[k].k = "lazy" ->
           LET r == MatchFrom(p, k + 1, s, i) IN
           IF r # 0 THEN r
           ELSE IF i <= Len(s) /\ InClass(p[k].c, s[i]) THEN MatchFrom(p, k, s, i + 1) ELSE 0
      [] p[k].k = "greedy" ->
           LET r == IF i <= Len(s) /\ InClass(p[k].c, s[i]) THEN MatchFrom(p, k, s, i + 1) ELSE 0 IN
           IF r # 0 THEN r ELSE MatchFrom(p, k + 1, s, i)

\* re.sub(p, repl, s) with count = 0: every non-overlapping match, scanning
\* left to right, is replaced by repl.
RECURSIVE SubFrom(_, _, _, _)
SubFrom(p, repl, s, i) ==
  IF i > Len(s) THEN <<>>
  ELSE LET e == MatchFrom(p, 1, s, i) IN
       IF e > i THEN repl \o SubFrom(p, repl, s, e)
       ELSE <<s[i]>> \o SubFrom(p, repl, s, i + 1)

ReSub(p, repl, s) == SubFrom(p, repl, s, 1)

\* The spans (first position, position after the last) re.sub replaces.
RECURSIVE SpansFrom(_, _, _)
SpansFrom(p, s, i) ==
  IF i > Len(s) THEN <<>>
  ELSE LET e == MatchFrom(p, 1, s, i) IN
       IF e > i THEN <<(<<i, e>>)>> \o SpansFrom(p, s, e)
       ELSE SpansFrom(p, s, i + 1)

Spans(p, s) == SpansFrom(p, s, 1)

\* str.replace(old, new): every non-overlapping occurrence of old, scanning
\* left to right, is replaced by new.
RECURSIVE ReplaceFrom(_, _, _, _)
ReplaceFrom(s, old, new, i) ==
  IF i > Len(s) THEN <<>>
  ELSE IF i + Len(old) - 1 <= Len(s) /\ SubSeq(s, i, i + Len(old) - 1) = old
       THEN new \o ReplaceFrom(s, old, new, i + Len(old))
       ELSE <<s[i]>> \o ReplaceFrom(s, old, new, i + 1)

\* str.replace with count = 1: only the first occurrence is replaced.
StrReplaceFirst(s, old, new) ==
  LET at == {i \in 1..Len(s) : i + Len(old) - 1 <= Len(s) /\ SubSeq(s, i, i + Len(old) - 1) = old} IN
  IF at = {} THEN s
  ELSE LET i == CHOOSE m \in at : \A n \in at : m <= n IN
       SubSeq(s, 1, i - 1) \o new \o SubSeq(s, i + Len(old), Len(s))

\* str.replace that looks for the first token of old only.
StrReplaceHead(s, old, new) == ReplaceFrom(s, SubSeq(old, 1, 1), new, 1)

StrReplace(s, old, new) == ReplaceFrom(s, old, new, 1)

\* --------------------------------------------------------------- the rules
\* A rule is one assignment to content: kind "replace" is content.replace(old,
\* repl), kind "sub" is re.sub(pat, repl, content).  badEscape says that repl
\* holds a backslash followed by an ASCII letter that is no template escape.
Replace(old, repl) ==
  [kind |-> "replace", old |-> old, pat |-> Lits(old), repl |-> repl, badEscape |-> FALSE]

Sub(pat, repl, bad) ==
  [kind |-> "sub", old |-> <<>>, pat |-> pat, repl |-> repl, badEscape |-> bad]

\* console\.log\(<label>.*?\);\n  without re.DOTALL
LogLine(label) ==
  Sub(<<Lit("CL"), Lit(label), Lazy("dot"), Lit("CLOSE"), Lit("NL")>>, <<>>, FALSE)

RemoveBetCardImport == Replace(<<"IMP", "NL">>, <<>>)

RemoveTimeFieldVariations ==
  Sub(<<Lit("CL"), Lit("L5"), Lazy("any"), Lit("CLOSE"), Lit("NL"),
        Lazy("any"), Lit("CLOSE"), Lit("NL")>>, <<>>, FALSE)

RemoveDebugEffect ==
  Sub(<<Lit("DBG"), Greedy("space"), Lit("NL"), Greedy("space"),
        Lit("UE"), Greedy("space"), Lit("NL"),
        Lazy("any"), Lit("CL"), Lazy("any"), Lit("NL"),
        Lazy("any"), Lit("CL"), Lazy("any"), Lit("NL"),
        Lazy("any"), Lit("CL"), Lazy("any"), Lit("NL"),
        Greedy("space"), Lit("DEPS"), Lit("CLOSE"), Lit("NL")>>, <<>>, FALSE)

RemoveHardcodedComment == Replace(<<"NL", "HARD", "NL">>, <<>>)

old_extract_odds ==
  <<Lit("HDR"), Greedy("space"), Lit("NL"), Greedy("space"), Lit("FN"),
    Lazy("any"), Lit("RET"), Greedy("space"), Lit("NL"), Greedy("space"), Lit("END")>>

new_extract_odds ==
  <<"HDR", "NL", "SP", "FN", "B1", "CLOSE", "NL", "B2", "CLOSE", "NL",
    "B3", "CLOSE", "NL", "B4", "NL", "SP", "RET", "NL", "SP", "END">>

\* A replacement that lost the function's header comment.
SimplifyExtractOddsNoHeader == Sub(old_extract_odds, Tail(new_extract_odds), TRUE)

\* new_extract_odds holds \d (source line 47): a bad escape of the template.
SimplifyExtractOdds == Sub(old_extract_odds, new_extract_odds, TRUE)

RemoveUnusedStateComment == Replace(<<"UNUSED", "NL">>, <<>>)

RemoveToastComment == Replace(<<"NL", "TOAST">>, <<>>)

RemoveReloadKeyState == Replace(<<"RKH", "CLOSE", "NL">>, <<>>)

RemoveSetReloadKey ==
  Sub(<<Lit("INC"), Greedy("space"), Lit("NL"), Greedy("space"),
        Lit("SRK"), Greedy("space"), Lit("NL"),
        Lazy("any"), Lit("NL"), Lazy("any"), Lit("NL"),
        Greedy("space"), Lit("RB"), Lit("CLOSE"), Greedy("space"), Lit("NL")>>, <<>>, FALSE)

RemovePageTitle ==
  Sub(<<Lit("PT"), Lazy("any"), Lit("GP"), Lit("NL")>>, <<>>, FALSE)

\* The assignments to content of source lines 10-67, in order.
Rules ==
  <<RemoveBetCardImport,
    LogLine("L1"), LogLine("L2"), LogLine("L3"), LogLine("L4"),
    RemoveTimeFieldVariations,
    LogLine("L6"), LogLine("L7"), LogLine("L8"),
    RemoveDebugEffect,
    RemoveHardcodedComment,
    SimplifyExtractOdds,
    RemoveUnusedStateComment,
    RemoveToastComment,
    RemoveReloadKeyState,
    RemoveSetReloadKey,
    RemovePageTitle>>

NumRules == Len(Rules)

\* The value the rule's call returns for the buffer s.
ApplyRule(r, s) ==
  IF r.kind = "replace" THEN StrReplace(s, r.old, r.repl) ELSE ReSub(r.pat, r.repl, s)

\* Does the rule's call raise?  re.sub compiles a replacement that holds a
\* backslash before it scans, and rejects a bad escape where the interpreter
\* treats it as an error (Python 3.7 and later; earlier ones keep it as text).
Raises(r) == r.kind = "sub" /\ r.badEscape /\ badEscapeIsError

\* The lines the script prints, source lines 73-80.
Summary ==
  <<"Cleaned up RealGaryPicks.jsx:",
    "- Removed unused BetCard import",
    "- Removed excessive console.log statements",
    "- Removed debug logging effects",
    "- Simplified extractOddsFromAnalysis function",
    "- Removed unused reloadKey state",
    "- Removed unused pageTitle variable",
    "- Cleaned up verbose comments">>

\* ------------------------------------------------------------- the inputs
\* The texts made of at most n fragments of lib.
RECURSIVE Texts(_, _)
Texts(lib, n) ==
  IF n = 0 THEN {<<>>}
  ELSE LET shorter == Texts(lib, n - 1) IN
       shorter \cup {t \o f : t \in shorter, f \in lib}

\* Loose tokens: the import line, a newline, other code, the opening of a named
\* debug statement and a closing ");".
LineLib == {<<"IMP">>, <<"NL">>, <<"X">>, <<"CL", "L1">>, <<"CLOSE">>}

\* The pieces of the debug effect: its head, a plain console.log line, a
\* named console.log line, its dependency-list tail.
BlockLib ==
  {<<"DBG", "NL", "SP", "UE", "NL">>,
   <<"SP", "CL", "X", "CLOSE", "NL">>,
   <<"SP", "CL", "L4", "X", "CLOSE", "NL">>,
   <<"SP", "DEPS", "CLOSE", "NL">>}

\* The pieces of the setReloadKey call: its head, a body line, its end.
ReloadLib ==
  {<<"INC", "NL", "SP", "SRK", "NL">>,
   <<"SP", "X", "NL">>,
   <<"RB", "CLOSE", "NL">>}

\* The old and the new extractOddsFromAnalysis function and another line.
OddsLib ==
  {<<"HDR", "NL", "SP", "FN", "NL", "X", "NL", "RET", "NL", "END">>,
   new_extract_odds,
   <<"X", "NL">>}

\* ---------------------------------------------------------- the program
InitWith(texts) ==
  /\ file \in texts
  /\ badEscapeIsError \in BOOLEAN
  /\ content = <<>>
  /\ pc = "read"
  /\ rule = 1
  /\ out = <<>>
  /\ hist = <<>>

Init == InitWith(Texts(LineLib, MaxFrags))
InitBlock == InitWith(Texts(BlockLib, MaxBlockFrags))
InitReload == InitWith(Texts(ReloadLib, MaxReloadFrags))
InitOdds == InitWith(Texts(OddsLib, MaxOddsFrags))

\* with open(..., 'r') as f: content = f.read()
Read ==
  /\ pc = "read"
  /\ content' = file
  /\ hist' = <<file>>
  /\ pc' = "rewrite"
  /\ UNCHANGED <<file, rule, out, badEscapeIsError>>

\* A rewrite that applies its rule to the text as read, not to the buffer.
RewriteOriginal ==
  /\ pc = "rewrite"
  /\ rule <= NumRules
  /\ ~Raises(Rules[rule])
  /\ content' = ApplyRule(Rules[rule], file)
  /\ hist' = Append(hist, content')
  /\ rule' = rule + 1
  /\ pc' = IF rule = NumRules THEN "open" ELSE "rewrite"
  /\ UNCHANGED <<file, out, badEscapeIsError>>

\* A rewrite that saves the buffer to the file after each rule.
RewriteAndSave ==
  /\ pc = "rewrite"
  /\ rule <= NumRules
  /\ ~Raises(Rules[rule])
  /\ content' = ApplyRule(Rules[rule], content)
  /\ file' = content'
  /\ hist' = Append(hist, content')
  /\ rule' = rule + 1
  /\ pc' = IF rule = NumRules THEN "open" ELSE "rewrite"
  /\ UNCHANGED <<out, badEscapeIsError>>

\* content = <the rule's call on content>, the call returning
Rewrite ==
  /\ pc = "rewrite"
  /\ rule <= NumRules
  /\ ~Raises(Rules[rule])
  /\ content' = ApplyRule(Rules[rule], content)
  /\ hist' = Append(hist, content')
  /\ rule' = rule + 1
  /\ pc' = IF rule = NumRules THEN "open" ELSE "rewrite"
  /\ UNCHANGED <<file, out, badEscapeIsError>>

\* the rule's call raising re.error: the script ends with a traceback
RewriteRaises ==
  /\ pc = "rewrite"
  /\ rule <= NumRules
  /\ Raises(Rules[rule])
  /\ pc' = "raised"
  /\ UNCHANGED <<file, content, rule, out, hist, badEscapeIsError>>

\* open(..., 'w') truncates the file
OpenForWrite ==
  /\ pc = "open"
  /\ file' = <<>>
  /\ pc' = "write"
  /\ UNCHANGED <<content, rule, out, hist, badEscapeIsError>>

\* f.write(content)
WriteBack ==
  /\ pc = "write"
  /\ file' = content
  /\ pc' = "print"
  /\ UNCHANGED <<content, rule, out, hist, badEscapeIsError>>

\* the eight print calls
PrintSummary ==
  /\ pc = "print"
  /\ out' = Summary
  /\ pc' = "done"
  /\ UNCHANGED <<file, content, rule, hist, badEscapeIsError>>

Next == Read \/ Rewrite \/ RewriteRaises \/ OpenForWrite \/ WriteBack \/ PrintSummary

Spec == Init /\ [][Next]_vars
SpecBlock == InitBlock /\ [][Next]_vars
SpecReload == InitReload /\ [][Next]_vars
SpecOdds == InitOdds /\ [][Next]_vars

TypeOK ==
  /\ pc \in {"read", "rewrite", "open", "write", "print", "done", "raised"}
  /\ rule \in 1..(NumRules + 1)
  /\ Len(hist) = (IF pc = "read" THEN 0 ELSE rule)

\* ------------------------------------------------------------ properties
\* hist[1] is the text as read and hist[k + 1] the buffer after rule k.

\* The number of matches rule r finds in s (its occurrences).
Occurrences(r, s) == Len(Spans(r.pat, s))

\* Rules 1..n applied in order, each to the result of the one before.
RECURSIVE FoldTo(_, _)
FoldTo(n, s) == IF n = 0 THEN s ELSE ApplyRule(Rules[n], FoldTo(n - 1, s))

RunAll(s) == FoldTo(NumRules, s)

\* The positions where the token sequence old occurs in s.
OccSet(old, s) ==
  {i \in 1..Len(s) : i + Len(old) - 1 <= Len(s) /\ SubSeq(s, i, i + Len(old) - 1) = old}

RECURSIVE SpanTotal(_)
SpanTotal(sp) == IF sp = <<>> THEN 0 ELSE (Head(sp)[2] - Head(sp)[1]) + SpanTotal(Tail(sp))

Ran == pc \in {"open", "write", "print", "done"}

\* C1: the rules are applied in their declared order, each to the buffer the
\* rule before it produced: the buffer after rule k is the left-to-right fold
\* of rules 1..k over the text as read, and so are the final buffer and the
\* text written to the file.
C1_FoldInOrder ==
  /\ Len(hist) > 0 => content = FoldTo(Len(hist) - 1, hist[1])
  /\ Ran => content = RunAll(hist[1])
  /\ pc \in {"print", "done"} => file = content

\* A run in which rule 2 matched only because rule 1 had removed an import
\* line from inside the debug statement.
C1_Witness ==
  /\ pc = "done"
  /\ hist[2] # hist[1]
  /\ Occurrences(Rules[2], hist[1]) = 0
  /\ hist[3] # hist[2]

\* C2: idempotence: running the whole rule sequence on the final text of a
\* run gives the same text again.
C2_Idempotent == Ran => RunAll(content) = content

\* C3: if no rule's matcher occurs in the text as read, no rule changes the
\* buffer and the text written back equals the text read.
C3_NoOp ==
  (Len(hist) > 0 /\ \A k \in 1..NumRules : Occurrences(Rules[k], hist[1]) = 0)
    => /\ \A j \in 1..Len(hist) : hist[j] = hist[1]
       /\ content = hist[1]
       /\ pc \in {"print", "done"} => file = hist[1]

\* A finished run on a text that holds the import statement without its
\* newline and the opening of a debug statement without its end.
C3_Witness ==
  /\ pc = "done"
  /\ \A k \in 1..NumRules : Occurrences(Rules[k], hist[1]) = 0
  /\ \E i, j \in 1..Len(hist[1]) : hist[1][i] = "IMP" /\ hist[1][j] = "L1"

C5_NeverRaises == pc # "raised"

\* C6: the file is written only after every rule has been applied to the
\* buffer: while rules run, and when one fails, the file still holds the text
\* as read; once written it holds the result of all rules.
C6_NoPartialWrite ==
  /\ pc \in {"rewrite", "open", "raised"} => file = hist[1]
  /\ pc \in {"write", "print", "done"} => Len(hist) = NumRules + 1
  /\ pc \in {"print", "done"} => file = hist[NumRules + 1]

\* A rule has failed after earlier rules changed the buffer.
C6_Witness == pc = "raised" /\ content # file /\ rule > 1

\* C7: a rewrite is reported as applied only if it changed the buffer in
\* this run.
C7_ReportedOnlyIfChanged ==
  (\E i \in 1..Len(out) : out[i] = "- Removed unused BetCard import") => hist[2] # hist[1]

\* C8: in the script's order a line-level removal inside the debug effect
\* never stops the block rule from matching: if the text as read holds a
\* block the rule matches, the rule still finds a match when its turn comes.
C8_BlockStillMatches ==
  (Len(hist) >= 10 /\ Occurrences(RemoveDebugEffect, hist[1]) > 0)
    => Occurrences(RemoveDebugEffect, hist[10]) > 0

\* C9: a block rule removes text only up to the nearest terminator after its
\* opening marker: a span the setReloadKey rule removes holds one "});" only,
\* the one that ends it.
C9_NearestTerminator ==
  Len(hist) >= 16 =>
    \A n \in 1..Len(Spans(RemoveSetReloadKey.pat, hist[16])) :
      LET sp == Spans(RemoveSetReloadKey.pat, hist[16])[n] IN
      Cardinality({j \in sp[1]..(sp[2] - 2) :
                     hist[16][j] = "RB" /\ hist[16][j + 1] = "CLOSE"}) <= 1

====
